---- MODULE Spec2Model ----
(***************************************************************************)
(* acertmgr: configuration resolution (configuration.py) and the           *)
(* certificate run (__init__.py: main, cert_get, cert_put).                *)
(*                                                                         *)
(* Strings are sequences of characters (one-character TLA+ strings), so    *)
(* that split, join, strip, startswith and the substring test are computed *)
(* as Python computes them.  A chunk of several characters (".crt",        *)
(* "/w") abbreviates a run of characters that no operation looks inside.   *)
(* A dict whose keys are field names is a function from those names.       *)
(***************************************************************************)
EXTENDS Integers, Sequences, FiniteSets, TLC

VARIABLES
    globalconfig,    \* load(): the global configuration document
    runtimeconfig,   \* load(): the runtime configuration
    entries,         \* load(): the (key, override list) items of the domain files, in enumeration order
    domainconfigs,   \* load(): the resolved configurations appended so far
    pc,              \* where the process is: "load", "main", "cert", "targets", "actions", "done", "raised"
    configs,         \* main: what the for loop at line 152 iterates
    idx,             \* main: index of the current element of configs
    tix,             \* main: index of the current deployment target of that element
    files,           \* the file system: path -> [content, mtime]
    now,             \* the file system clock
    actions,         \* main: the set of collected actions
    pending,         \* main: the actions the second loop has not visited yet
    run,             \* number of the current invocation of main
    log              \* history of the calls made, per invocation (observation only)

vars == <<globalconfig, runtimeconfig, entries, domainconfigs, pc, configs, idx, tix,
          files, now, actions, pending, run, log>>

----------------------------------------------------------------------------
(* Bounds of the model *)

MaxDocs == 2
MaxDomains == 2
MaxEntries == 2
MaxRuns == 2

----------------------------------------------------------------------------
(* Python strings, lists and dicts *)

Range(s) == {s[i] : i \in 1..Len(s)}

\* Python None, as a value of string type
None == <<"<None>">>

\* ord(c): the code point of a character of the model's alphabet; "U" stands
\* for U+00FC (u with diaeresis), every other character is ASCII
Ord(c) ==
    CASE c = "U" -> 252
      [] c = "a" -> 97
      [] c = "b" -> 98
      [] c = "." -> 46
      [] c = "*" -> 42
      [] c = " " -> 32
      [] OTHER -> 95

\* s[i:] (1-based i)
Drop(s, n) == SubSeq(s, n + 1, Len(s))

\* s.startswith(p)
StartsWith(s, p) == Len(s) >= Len(p) /\ SubSeq(s, 1, Len(p)) = p

\* sub in s, for strings
Contains(s, sub) ==
    \E i \in 1..(Len(s) - Len(sub) + 1) : SubSeq(s, i, i + Len(sub) - 1) = sub

\* s.split(sep) for a one-character separator: empty pieces are kept
RECURSIVE SplitFrom(_, _, _)
SplitFrom(s, sep, cur) ==
    IF s = <<>> THEN <<cur>>
    ELSE IF Head(s) = sep THEN <<cur>> \o SplitFrom(Tail(s), sep, <<>>)
    ELSE SplitFrom(Tail(s), sep, Append(cur, Head(s)))

Split(s, sep) == SplitFrom(s, sep, <<>>)

\* sep.join(list)
RECURSIVE Join(_, _)
Join(list, sep) ==
    IF list = <<>> THEN <<>>
    ELSE IF Len(list) = 1 THEN list[1]
    ELSE list[1] \o sep \o Join(Tail(list), sep)

\* str.strip(s): leading and trailing blanks removed
RECURSIVE LStrip(_)
LStrip(s) == IF s # <<>> /\ Head(s) = " " THEN LStrip(Tail(s)) ELSE s

RECURSIVE RStrip(_)
RStrip(s) ==
    IF s # <<>> /\ s[Len(s)] = " " THEN RStrip(SubSeq(s, 1, Len(s) - 1)) ELSE s

Strip(s) == RStrip(LStrip(s))

\* [x for x in list if name in x], for a list of dicts
Defining(list, name) == SelectSeq(list, LAMBDA x : name \in DOMAIN x)

\* d.get(name, default)
Get(d, name, default) == IF name \in DOMAIN d THEN d[name] ELSE default

\* d.update(e): the result
Update(d, e) ==
    [k \in (DOMAIN d) \cup (DOMAIN e) |-> IF k \in DOMAIN e THEN e[k] ELSE d[k]]

\* An insertion-ordered dict with string keys: a sequence of [k, v] items
RECURSIVE DictSet(_, _, _)
DictSet(d, k, v) ==
    IF d = <<>> THEN <<[k |-> k, v |-> v]>>
    ELSE IF Head(d).k = k THEN <<[k |-> k, v |-> v]>> \o Tail(d)
    ELSE <<Head(d)>> \o DictSet(Tail(d), k, v)

DictValues(d) == [i \in 1..Len(d) |-> d[i].v]

DictGet(d, k, default) ==
    IF \E i \in 1..Len(d) : d[i].k = k
    THEN d[CHOOSE i \in 1..Len(d) : d[i].k = k].v
    ELSE default

\* os.path.join(dir, name)
PathJoin(dir, name) == dir \o <<"/">> \o name

----------------------------------------------------------------------------
(* configuration.py *)

DEFAULT_KEY_LENGTH == 4096
DEFAULT_TTL == 30
DEFAULT_API == <<"v2">>
DEFAULT_AUTHORITY == <<"https://acme-v02.api.letsencrypt.org">>

\* hashlib.md5(s.encode('utf-8')).hexdigest(): a digest that is a function of
\* the exact character sequence and has no collisions on the model's strings;
\* here every character contributes one hexadecimal digit
HexDigit(c) ==
    CASE c = " " -> "0"
      [] c = "a" -> "1"
      [] c = "b" -> "2"
      [] c = "." -> "3"
      [] c = "*" -> "4"
      [] c = "U" -> "5"
      [] c = "c" -> "6"
      [] c = "_" -> "7"
      [] c = "f" -> "8"
      [] c = "i" -> "9"
      [] c = "l" -> "d"
      [] c = "e" -> "e"
      [] OTHER -> "f"

Md5(s) == [i \in 1..Len(s) |-> HexDigit(s[i])]

\* any(ord(c) >= 128 for c in s)
NonAscii(s) == \E i \in 1..Len(s) : Ord(s[i]) >= 128

\* idna.encode(domain).decode('utf-8'): label by label, a label with a
\* non-ASCII character becomes "xn--" + its ASCII characters + "-" + one
\* code character per non-ASCII character; an ASCII label is unchanged
IdnaLabel(l) ==
    IF NonAscii(l)
    THEN <<"x", "n", "-", "-">>
            \o SelectSeq(l, LAMBDA c : Ord(c) < 128)
            \o <<"-">>
            \o [i \in 1..Len(SelectSeq(l, LAMBDA c : Ord(c) >= 128)) |-> "t"]
    ELSE l

IdnaEncode(domain) ==
    LET labels == Split(domain, ".")
    IN  Join([i \in 1..Len(labels) |-> IdnaLabel(labels[i])], <<".">>)

\* lines 72-75: the IDNA form of a unicode domain, the wildcard marker kept
idna_domain(domain) ==
    IF StartsWith(domain, <<"*", ".">>)
    THEN <<"*", ".">> \o IdnaEncode(Drop(domain, 2))
    ELSE IdnaEncode(domain)

\* idna_convert(domainlist), with the idna module loaded
RECURSIVE IdnaLoop(_, _)
IdnaLoop(domainlist, domaintranslation) ==
    IF domainlist = <<>> THEN domaintranslation
    ELSE LET domain == Head(domainlist)
         IN  IdnaLoop(Tail(domainlist),
                      IF NonAscii(domain)
                      THEN DictSet(domaintranslation, idna_domain(domain), domain)
                      ELSE domaintranslation)

idna_convert(domainlist) ==
    IF NonAscii(Join(domainlist, <<>>))
    THEN IdnaLoop(domainlist, <<>>)
    ELSE <<>>

\* update_config_value taking the last defining document instead of the first
update_config_value_last(name, localconfig, globalconfig_, default) ==
    LET values == Defining(localconfig, name)
    IN  IF Len(values) > 0
        THEN values[Len(values)][name]
        ELSE Get(globalconfig_, name, default)

\* update_config_value: the value config[name] is set to
update_config_value(name, localconfig, globalconfig_, default) ==
    LET values == Defining(localconfig, name)
    IN  IF Len(values) > 0
        THEN values[1][name]
        ELSE Get(globalconfig_, name, default)

\* complete_action_config(domainconfig, config): the completed target
complete_action_config(domainconfig, config) ==
    LET d1 == Update(domainconfig,
                     [ca_file |-> config.ca_file,
                      cert_file |-> config.cert_file,
                      key_file |-> config.key_file])
        d2 == Update(config.defaults, d1)
    IN  IF "action" \in DOMAIN d2 THEN d2 ELSE Update(d2, [action |-> None])

\* a < b or a = b, for strings, by code point
RECURSIVE StrLeq(_, _)
StrLeq(a, b) ==
    IF a = <<>> THEN TRUE
    ELSE IF b = <<>> THEN FALSE
    ELSE IF Ord(Head(a)) # Ord(Head(b)) THEN Ord(Head(a)) < Ord(Head(b))
    ELSE StrLeq(Tail(a), Tail(b))

\* sorted(list), for a list of strings
RECURSIVE Sorted(_)
Sorted(list) ==
    IF list = <<>> THEN <<>>
    ELSE LET least == CHOOSE i \in 1..Len(list) :
                          \A j \in 1..Len(list) : StrLeq(list[i], list[j])
         IN  <<list[least]>>
                \o Sorted(SubSeq(list, 1, least - 1) \o SubSeq(list, least + 1, Len(list)))

\* the identifier taken from the sorted domain list instead of the key
config_id_sorted(domains) == Md5(Join(Sorted(Split(domains, " ")), <<" ">>))

\* line 91: the identifier of a domain group, from its key as written
config_id(domains) == Md5(domains)

\* 'ca_file' as a Python string
s_ca_file == <<"c", "a", "_", "f", "i", "l", "e">>

\* [x for x in entry if 'ca_file' in x] (line 155): entry is the pair
\* (domains, localconfig), so x is the key string (substring test) and then
\* the override list (membership of the string 'ca_file' in a list of dicts,
\* which is never true)
ca_files_of(entry) ==
    SelectSeq(<<1, 2>>,
              LAMBDA i : IF i = 1 THEN Contains(entry[1], s_ca_file) ELSE FALSE)

\* parse_config_entry(entry, globalconfig, runtimeconfig): the resolved config
parse_config_entry(entry, globalconfig_, runtimeconfig_) ==
    LET domains0 == entry[1]
        localconfig == entry[2]
        domainlist0 == Split(domains0, " ")
        id == config_id(domains0)
        domaintranslation == idna_convert(domainlist0)
        translated == Len(domaintranslation) > 0
        domainlist == IF translated THEN DictValues(domaintranslation) ELSE domainlist0
        domains == IF translated THEN Join(domainlist, <<" ">>) ELSE domains0
        defaults == Get(globalconfig_, "defaults", <<>>)
        value(name, default) ==
            update_config_value(name, localconfig, globalconfig_, default)
        cert_dir == value("cert_dir", runtimeconfig_.work_dir)
        cert_file ==
            value("cert_file",
                  Get(globalconfig_, "server_cert", PathJoin(cert_dir, id \o <<".crt">>)))
        key_file ==
            value("key_file",
                  Get(globalconfig_, "server_key", PathJoin(cert_dir, id \o <<".key">>)))
        ca_files == ca_files_of(entry)
        static_ca == Len(ca_files) > 0 \/ "server_ca" \in DOMAIN globalconfig_
        ca_file ==
            IF Len(ca_files) > 0 THEN entry[ca_files[1]]
            ELSE IF "server_ca" \in DOMAIN globalconfig_ THEN globalconfig_.server_ca
            ELSE PathJoin(cert_dir, id \o <<".ca">>)
        base == [defaults |-> defaults, ca_file |-> ca_file,
                 cert_file |-> cert_file, key_file |-> key_file]
        \* the override documents after line 170: complete_action_config
        \* completes a document with a path in place
        completed ==
            [i \in 1..Len(localconfig) |->
                IF "path" \in DOMAIN localconfig[i]
                THEN complete_action_config(localconfig[i], base)
                ELSE localconfig[i]]
        handlerconfigs == Defining(completed, "mode")
        genericfgs == SelectSeq(handlerconfigs, LAMBDA x : "domain" \notin DOMAIN x)
        handler(domain) ==
            LET cfg1 == IF Len(genericfgs) > 0
                        THEN Update(globalconfig_, genericfgs[1])
                        ELSE globalconfig_
                _domain == DictGet(domaintranslation, domain, domain)
                specificcfgs ==
                    SelectSeq(handlerconfigs,
                              LAMBDA x : "domain" \in DOMAIN x /\ x.domain = _domain)
            IN  IF Len(specificcfgs) > 0 THEN Update(cfg1, specificcfgs[1]) ELSE cfg1
    IN  [domains |-> domains,
         domainlist |-> domainlist,
         id |-> id,
         domaintranslation |-> domaintranslation,
         defaults |-> defaults,
         api |-> value("api", DEFAULT_API),
         authority |-> value("authority", DEFAULT_AUTHORITY),
         authority_tos_agreement |->
             value("authority_tos_agreement", runtimeconfig_.authority_tos_agreement),
         authority_contact_email |-> value("authority_contact_email", None),
         account_key |->
             value("account_key", PathJoin(runtimeconfig_.work_dir, <<"account.key">>)),
         cert_dir |-> cert_dir,
         ttl_days |-> value("ttl_days", DEFAULT_TTL),
         cert_revoke_superseded |-> value("cert_revoke_superseded", <<"false">>),
         csr_static |-> value("csr_static", <<"false">>),
         csr_file |-> value("csr_file", PathJoin(cert_dir, id \o <<".csr">>)),
         cert_file |-> cert_file,
         key_file |-> key_file,
         key_length |-> value("key_length", DEFAULT_KEY_LENGTH),
         static_ca |-> static_ca,
         ca_file |-> ca_file,
         actions |-> Defining(completed, "path"),
         handlers |-> [d \in Range(domainlist) |-> handler(d)]]

----------------------------------------------------------------------------
(* The file system and the collaborators of __init__.py *)

\* A file is [content, mtime]; its content is a sequence of PEM blocks
\* [kind, life, serial]: life is a certificate's remaining lifetime in days,
\* serial tells the certificates apart (0: present before the first run)
Block(kind, life, serial) == [kind |-> kind, life |-> life, serial |-> serial]

\* os.path.isfile(path)
IsFile(fs, path) == path \in DOMAIN fs

\* a file written at time t: created or replaced, modification time t
WriteFile(fs, path, content, t) == (path :> [content |-> content, mtime |-> t]) @@ fs

\* tools.is_cert_valid(cert, ttl_days): the certificate parses and its
\* remaining lifetime exceeds ttl_days
is_cert_valid(cert, ttl_days) ==
    /\ cert # <<>>
    /\ cert[1].kind = "crt"
    /\ cert[1].life > ttl_days

\* tools.target_is_current(target, file): the target exists and is not older
\* than file
target_is_current(fs, target, file) ==
    /\ IsFile(fs, target)
    /\ fs[target].mtime >= fs[file].mtime

\* pwd.getpwnam / grp.getgrnam: the principals the system knows
KnownPrincipals == {<<"root">>}

s_crt == <<"c", "r", "t">>
s_key == <<"k", "e", "y">>
s_ca == <<"c", "a">>
s_true == <<"true">>

\* the certificate returned stored without the validity check
store_certificate_unchecked(settings, fs, crt, ca, t) ==
    LET fs1 == WriteFile(fs, settings.cert_file, crt, t)
    IN  IF ~settings.static_ca /\ ca
        THEN WriteFile(fs1, settings.ca_file, <<Block("ca", 0, t)>>, t)
        ELSE fs1

\* lines 85-89: the certificate returned is stored when it is valid, and the
\* CA certificate with it when the CA is not static and one was returned
store_certificate(settings, fs, crt, ca, t) ==
    IF is_cert_valid(crt, settings.ttl_days)
    THEN LET fs1 == WriteFile(fs, settings.cert_file, crt, t)
         IN  IF ~settings.static_ca /\ ca
             THEN WriteFile(fs1, settings.ca_file, <<Block("ca", 0, t)>>, t)
             ELSE fs1
    ELSE fs

\* cert_get(settings): the file system after the call and whether it raised.
\* outcome is what the authority does: fail is "register" (register_account
\* or the creation of a challenge handler raises), "exchange"
\* (get_crt_from_csr raises) or "none": a certificate of remaining lifetime
\* life is returned, with a CA certificate iff ca.
cert_get(settings, fs, t, outcome) ==
    LET acc_file == settings.account_key
        \* create_authority: the account key is created when missing
        fs1 == IF IsFile(fs, acc_file) THEN fs
               ELSE WriteFile(fs, acc_file, <<Block("key", 0, t)>>, t)
        key_file == settings.key_file
        fs2 == IF IsFile(fs1, key_file) THEN fs1
               ELSE WriteFile(fs1, key_file, <<Block("key", 0, t)>>, t)
        csr_file == settings.csr_file
        fs3 == IF IsFile(fs2, csr_file) /\ settings.csr_static = s_true THEN fs2
               ELSE WriteFile(fs2, csr_file, <<Block("csr", 0, t)>>, t)
        crt == <<Block("crt", outcome.life, t)>>
        fs4 == store_certificate(settings, fs3, crt, outcome.ca, t)
    IN  CASE outcome.fail = "register" -> [files |-> fs1, raised |-> TRUE]
          [] outcome.fail = "exchange" -> [files |-> fs3, raised |-> TRUE]
          [] OTHER -> [files |-> fs4, raised |-> FALSE]

\* the body of the with block of cert_put (lines 110-127): the content
\* written so far and whether a read raised
RECURSIVE write_formats(_, _, _, _)
write_formats(crt_format, settings, fs, written) ==
    IF crt_format = <<>> THEN [content |-> written, raised |-> FALSE]
    ELSE LET fmt == Head(crt_format)
             src == CASE fmt = s_crt -> settings.cert_file
                      [] fmt = s_key -> settings.key_file
                      [] fmt = s_ca -> settings.ca_file
                      [] OTHER -> <<>>
         IN  IF fmt \notin {s_crt, s_key, s_ca}
             THEN write_formats(Tail(crt_format), settings, fs, written)
             ELSE IF ~IsFile(fs, src)
             THEN [content |-> written, raised |-> TRUE]
             ELSE write_formats(Tail(crt_format), settings, fs,
                                written \o fs[src].content)

\* cert_put(settings): the file system after the call, whether it raised, and
\* the action it returns
cert_put(settings, fs, t) ==
    IF {"user", "group", "perm", "format"} \ DOMAIN settings # {}
    THEN [files |-> fs, raised |-> TRUE, action |-> None]
    ELSE LET parts == Split(settings.format, ",")
             crt_format == [i \in 1..Len(parts) |-> Strip(parts[i])]
             \* io.open(crt_path, "w+") truncates the target, the loop writes
             \* into it, and leaving the with block closes it
             w == write_formats(crt_format, settings, WriteFile(fs, settings.path, <<>>, t), <<>>)
             fs1 == WriteFile(fs, settings.path, w.content, t)
         IN  IF w.raised
             THEN [files |-> fs1, raised |-> TRUE, action |-> None]
             ELSE IF settings.user \notin KnownPrincipals
                     \/ settings.group \notin KnownPrincipals
             THEN [files |-> fs1, raised |-> TRUE, action |-> None]
             ELSE [files |-> fs1, raised |-> FALSE, action |-> settings.action]

----------------------------------------------------------------------------
(* Inputs *)

\* sequences over S of length lo..hi
SeqsOf(S, lo, hi) == UNION {[1..k -> S] : k \in lo..hi}

RuntimeConfig == [work_dir |-> <<"/w">>, authority_tos_agreement |-> None]

\* Domain names: two ASCII names, one with a non-ASCII label, a wildcard over
\* a non-ASCII label, and a wildcard over an ASCII name
DomainPool == {<<"a">>, <<"b">>, <<"U">>, <<"*", ".", "U">>, <<"*", ".", "a">>}

\* Global documents and override documents for the resolution of fields
ConfGlobals ==
    {<<>>,
     [ttl_days |-> 45, cert_dir |-> <<"/g">>],
     [server_ca |-> <<"/legacy.ca">>, server_cert |-> <<"/legacy.crt">>],
     [ttl_days |-> 45, server_ca |-> <<"/legacy.ca">>, key_length |-> 2048]}

ConfDocs ==
    {[ttl_days |-> 60],
     [ttl_days |-> 10, cert_dir |-> <<"/c">>],
     [ca_file |-> <<"/static1.ca">>],
     [ca_file |-> <<"/static2.ca">>, cert_file |-> <<"/own.crt">>],
     [mode |-> <<"webdir">>, key_length |-> 1024]}

\* a key that happens to contain the text ca_file
ConfKeys == {<<"a">>, <<"x">> \o s_ca_file}

\* Deployment targets and domain groups for the runs of main
TargetDefaults ==
    [user |-> <<"root">>, group |-> <<"root">>, perm |-> <<"600">>,
     format |-> <<"c", "r", "t", ",", "k", "e", "y">>]

T_bundle == [path |-> <<"/t/bundle">>, action |-> <<"reload web">>]
T_chain ==
    [path |-> <<"/t/chain">>, action |-> <<"reload web">>,
     format |-> <<"c", "r", "t", ",", " ", "c", "a">>]
T_mail ==
    [path |-> <<"/t/mail">>, action |-> <<"reload mail">>,
     format |-> <<"k", "e", "y", ",", "c", "r", "t">>]
T_key == [path |-> <<"/t/key">>, format |-> <<"k", "e", "y">>]
T_ghost ==
    [path |-> <<"/t/ghost">>, action |-> <<"reload mail">>, user |-> <<"ghost">>,
     format |-> <<"c", "r", "t">>]

RunGlobals ==
    {[defaults |-> TargetDefaults],
     [defaults |-> TargetDefaults, server_ca |-> <<"/legacy.ca">>]}

RunEntries ==
    {<<(<<"a">>), <<T_bundle>>>>,
     <<(<<"a">>), <<T_chain, T_bundle>>>>,
     <<(<<"b">>), <<T_mail, T_key>>>>,
     <<(<<"b">>), <<T_ghost>>>>,
     <<(<<"a">>), <<[ttl_days |-> 60], T_mail>>>>}

\* What the authority may do in one cert_get
Lifetimes == {45, 90}

Outcomes ==
    {[fail |-> f, life |-> 0, ca |-> FALSE] : f \in {"register", "exchange"}}
    \cup {[fail |-> "none", life |-> l, ca |-> c] : l \in Lifetimes, c \in BOOLEAN}

EmptyLog ==
    [checked |-> {}, issued |-> {}, getRaised |-> {}, staleChecked |-> {},
     rebuilt |-> {}, putRaised |-> {}, returned |-> {}, executed |-> <<>>,
     failed |-> {}, previous |-> "none"]

----------------------------------------------------------------------------
(* Initial states *)

InitCommon ==
    /\ runtimeconfig = RuntimeConfig
    /\ domainconfigs = <<>>
    /\ pc = "load"
    /\ configs = <<>>
    /\ idx = 1
    /\ tix = 1
    /\ now = 1
    /\ actions = {}
    /\ pending = {}
    /\ run = 1
    /\ log = EmptyLog

\* one domain group whose override list and global document exercise the
\* resolution of fields
InitFields ==
    /\ globalconfig \in ConfGlobals
    /\ entries \in {<<(<<k, lc>>)>> : k \in ConfKeys, lc \in SeqsOf(ConfDocs, 0, MaxDocs)}
    /\ files = <<>>

\* one domain group whose key exercises the domain list
InitDomains ==
    /\ globalconfig \in {<<>>, [mode |-> <<"standalone">>]}
    /\ entries \in
          {<<(<<Join(l, <<" ">>), lc>>)>> :
              l \in SeqsOf(DomainPool, 1, MaxDomains),
              lc \in {<<>>, <<[mode |-> <<"webdir">>, domain |-> <<"U">>]>>}}
    /\ files = <<>>

InitConf == InitCommon /\ (InitFields \/ InitDomains)

\* The file system before the first run: nothing but, possibly, the static CA
\* file, or an installation whose certificates are about to expire
OldFiles(dcs) ==
    [p \in {dcs[i].cert_file : i \in 1..Len(dcs)} |->
        [content |-> <<Block("crt", 20, 0)>>, mtime |-> 0]]
    @@ [p \in {dcs[i].key_file : i \in 1..Len(dcs)} |->
        [content |-> <<Block("key", 0, 0)>>, mtime |-> 0]]

InitRun ==
    /\ InitCommon
    /\ globalconfig \in RunGlobals
    /\ entries \in SeqsOf(RunEntries, 1, MaxEntries)
    /\ LET dcs == [i \in 1..Len(entries) |->
                      parse_config_entry(entries[i], globalconfig, RuntimeConfig)]
       IN  \E old \in BOOLEAN, ca \in BOOLEAN :
              files = (IF old THEN OldFiles(dcs) ELSE <<>>)
                      @@ (IF ca /\ "server_ca" \in DOMAIN globalconfig
                          THEN (globalconfig.server_ca :>
                                   [content |-> <<Block("ca", 0, 0)>>, mtime |-> 0])
                          ELSE <<>>)

----------------------------------------------------------------------------
(* configuration.load(), lines 285-303 *)

\* line 296: the next entry is resolved and appended
LoadEntry ==
    /\ pc = "load"
    /\ Len(domainconfigs) < Len(entries)
    /\ domainconfigs' =
          Append(domainconfigs,
                 parse_config_entry(entries[Len(domainconfigs) + 1],
                                    globalconfig, runtimeconfig))
    /\ UNCHANGED <<globalconfig, runtimeconfig, entries, pc, configs, idx, tix,
                   files, now, actions, pending, run, log>>

\* line 303: load returns
LoadReturn ==
    /\ pc = "load"
    /\ Len(domainconfigs) = Len(entries)
    /\ pc' = "main"
    /\ UNCHANGED <<globalconfig, runtimeconfig, entries, domainconfigs, configs, idx,
                   tix, files, now, actions, pending, run, log>>

----------------------------------------------------------------------------
(* main(), lines 144-173 *)

\* lines 146-149: configs is what load returned, the pair
\* (runtimeconfig, domainconfigs)
MainLoad ==
    /\ pc = "main"
    /\ configs' = <<runtimeconfig, domainconfigs>>
    /\ actions' = {}
    /\ idx' = 1
    /\ tix' = 1
    /\ pc' = "cert"
    /\ UNCHANGED <<globalconfig, runtimeconfig, entries, domainconfigs, files, now,
                   pending, run, log>>

\* lines 146-149 with configs bound to the list of resolved domain
\* configurations, the second component of what load returns
MainLoadDomainConfigs ==
    /\ pc = "main"
    /\ configs' = domainconfigs
    /\ actions' = {}
    /\ idx' = 1
    /\ tix' = 1
    /\ pc' = "cert"
    /\ UNCHANGED <<globalconfig, runtimeconfig, entries, domainconfigs, files, now,
                   pending, run, log>>

\* where the first loop goes after target t of element i: the next target,
\* the next element, or the second loop
AfterTarget(i, t, n) ==
    IF t < n THEN [pc |-> "targets", idx |-> i, tix |-> t + 1]
    ELSE [pc |-> "cert", idx |-> i + 1, tix |-> 1]

\* lines 152-158: the next element of configs; its certificate is read and
\* checked, and cert_get is called when it is missing or not valid
MainCheckCert ==
    /\ pc = "cert"
    /\ idx <= Len(configs)
    /\ LET config == configs[idx]
       IN  IF "cert_file" \notin DOMAIN config
           THEN \* config['cert_file'] raises KeyError
                /\ pc' = "raised"
                /\ UNCHANGED <<idx, tix, files, now, log>>
           ELSE LET cert_file == config.cert_file
                    cert_file_exists == IsFile(files, cert_file)
                    needed == \/ ~cert_file_exists
                              \/ ~is_cert_valid(files[cert_file].content, config.ttl_days)
                    where == IF Len(config.actions) = 0
                             THEN AfterTarget(idx, 0, 0)
                             ELSE [pc |-> "targets", idx |-> idx, tix |-> 1]
                IN  IF ~needed
                    THEN /\ log' = [log EXCEPT !.checked = @ \cup {idx}]
                         /\ pc' = where.pc
                         /\ idx' = where.idx
                         /\ tix' = where.tix
                         /\ UNCHANGED <<files, now>>
                    ELSE \E outcome \in Outcomes :
                            LET r == cert_get(config, files, now, outcome)
                            IN  /\ files' = r.files
                                /\ now' = now + 1
                                /\ log' = [log EXCEPT
                                              !.checked = @ \cup {idx},
                                              !.issued = @ \cup {idx},
                                              !.getRaised =
                                                  IF r.raised THEN @ \cup {idx} ELSE @]
                                /\ pc' = IF r.raised THEN "raised" ELSE where.pc
                                /\ idx' = IF r.raised THEN idx ELSE where.idx
                                /\ tix' = IF r.raised THEN tix ELSE where.tix
    /\ UNCHANGED <<globalconfig, runtimeconfig, entries, domainconfigs, configs,
                   actions, pending, run>>

\* every target rebuilt, whatever its modification time
needs_update_always(fs, cfg, cert_file) == TRUE

\* line 161: whether a target is rebuilt
needs_update(fs, cfg, cert_file) == ~target_is_current(fs, cfg.path, cert_file)

\* lines 160-163: the next deployment target of the element; it is rebuilt by
\* cert_put when it is not current, and the action returned is collected
MainTarget ==
    /\ pc = "targets"
    /\ LET config == configs[idx]
           cfg == config.actions[tix]
           where == AfterTarget(idx, tix, Len(config.actions))
       IN  IF ~IsFile(files, config.cert_file) /\ IsFile(files, cfg.path)
           THEN \* target_is_current cannot read the certificate file's time
                /\ pc' = "raised"
                /\ log' = [log EXCEPT !.staleChecked = @ \cup {<<idx, tix>>}]
                /\ UNCHANGED <<idx, tix, files, now, actions>>
           ELSE IF ~needs_update(files, cfg, config.cert_file)
           THEN /\ log' = [log EXCEPT !.staleChecked = @ \cup {<<idx, tix>>}]
                /\ pc' = where.pc
                /\ idx' = where.idx
                /\ tix' = where.tix
                /\ UNCHANGED <<files, now, actions>>
           ELSE LET r == cert_put(cfg, files, now)
                IN  /\ files' = r.files
                    /\ now' = now + 1
                    /\ log' = [log EXCEPT
                                  !.staleChecked = @ \cup {<<idx, tix>>},
                                  !.rebuilt = @ \cup {<<idx, tix>>},
                                  !.putRaised =
                                      IF r.raised THEN @ \cup {<<idx, tix>>} ELSE @,
                                  !.returned =
                                      IF r.raised THEN @ ELSE @ \cup {r.action}]
                    /\ actions' = IF r.raised THEN actions ELSE actions \cup {r.action}
                    /\ pc' = IF r.raised THEN "raised" ELSE where.pc
                    /\ idx' = IF r.raised THEN idx ELSE where.idx
                    /\ tix' = IF r.raised THEN tix ELSE where.tix
    /\ UNCHANGED <<globalconfig, runtimeconfig, entries, domainconfigs, configs,
                   pending, run>>

\* line 166: the first loop is over, the second loop starts
MainCollected ==
    /\ pc = "cert"
    /\ idx > Len(configs)
    /\ pending' = actions
    /\ pc' = "actions"
    /\ UNCHANGED <<globalconfig, runtimeconfig, entries, domainconfigs, configs, idx,
                   tix, files, now, actions, run, log>>

\* lines 166-173: the next action of the set, in the set's own order; an
\* action that is not None is run in a shell and its exit status reported
MainRunAction ==
    /\ pc = "actions"
    /\ \E action \in pending :
          /\ pending' = pending \ {action}
          /\ IF action # None
             THEN \E status \in {0, 1} :
                     log' = [log EXCEPT
                                !.executed = Append(@, action),
                                !.failed = IF status # 0 THEN @ \cup {action} ELSE @]
             ELSE UNCHANGED log
    /\ UNCHANGED <<globalconfig, runtimeconfig, entries, domainconfigs, pc, configs,
                   idx, tix, files, now, actions, run>>

\* main returns
MainReturn ==
    /\ pc = "actions"
    /\ pending = {}
    /\ pc' = "done"
    /\ UNCHANGED <<globalconfig, runtimeconfig, entries, domainconfigs, configs, idx,
                   tix, files, now, actions, pending, run, log>>

\* the scheduler invokes the program again: same configuration, the file
\* system as the last run left it
Reinvoke ==
    /\ pc \in {"done", "raised"}
    /\ run < MaxRuns
    /\ run' = run + 1
    /\ pc' = "main"
    /\ log' = [EmptyLog EXCEPT !.previous = pc]
    /\ UNCHANGED <<globalconfig, runtimeconfig, entries, domainconfigs, configs, idx,
                   tix, files, now, actions, pending>>

----------------------------------------------------------------------------
(* Specifications *)

\* the program as written: load, then main
Next == LoadEntry \/ LoadReturn \/ MainLoad \/ MainCheckCert \/ Reinvoke

Spec == InitRun /\ [][Next]_vars

\* resolution of the configuration alone
NextConf == LoadEntry \/ LoadReturn

SpecConf == InitConf /\ [][NextConf]_vars

\* the two loops of main over the resolved domain configurations
NextLoops ==
    \/ LoadEntry
    \/ LoadReturn
    \/ MainLoadDomainConfigs
    \/ MainCheckCert
    \/ MainTarget
    \/ MainCollected
    \/ MainRunAction
    \/ MainReturn
    \/ Reinvoke

SpecLoops == InitRun /\ [][NextLoops]_vars

----------------------------------------------------------------------------
(* Properties of a run of main *)

\* how many times x occurs in seq
Count(seq, x) == Cardinality({i \in 1..Len(seq) : seq[i] = x})

\* main is over: it returned or an exception left it
MainOver == pc \in {"done", "raised"}

\* the format list of a target, as cert_put reads it
FormatsOf(cfg) ==
    IF "format" \in DOMAIN cfg
    THEN {Strip(x) : x \in Range(Split(cfg.format, ","))}
    ELSE {}

\* every target of every domain configuration, as <<group, target>> indices
Targets ==
    UNION {{<<i, t>> : t \in 1..Len(domainconfigs[i].actions)} :
              i \in 1..Len(domainconfigs)}

SecondLoopRunsEachOnce ==
    /\ \A a \in Range(log.executed) : Count(log.executed, a) = 1
    /\ pc = "done" => \A a \in log.returned \ {None} : Count(log.executed, a) = 1

\* an action failed and another one ran after it
FailedActionThenAnother ==
    /\ pc = "done"
    /\ \E i \in 1..Len(log.executed) :
          /\ log.executed[i] \in log.failed
          /\ i < Len(log.executed)

\* a group is completely processed: certificate checked, every target checked
GroupProcessed(i) ==
    /\ i \in log.checked
    /\ \A t \in 1..Len(configs[i].actions) : <<i, t>> \in log.staleChecked

CertFiles == {domainconfigs[i].cert_file : i \in 1..Len(domainconfigs)}

\* the content is a certificate that is valid for a group that owns path
ValidatedFor(path, content) ==
    \E i \in 1..Len(domainconfigs) :
        /\ domainconfigs[i].cert_file = path
        /\ is_cert_valid(content, domainconfigs[i].ttl_days)

C3_State ==
    \A p \in CertFiles :
        IsFile(files, p) =>
            \/ files[p].content[1].serial = 0
            \/ ValidatedFor(p, files[p].content)

C3_Step ==
    \A p \in CertFiles :
        (IsFile(files', p) /\ (~IsFile(files, p) \/ files'[p] # files[p])) =>
            /\ pc = "cert"
            /\ configs[idx].cert_file = p
            /\ is_cert_valid(files'[p].content, configs[idx].ttl_days)

AllCurrent ==
    \A i \in 1..Len(domainconfigs) :
        /\ IsFile(files, domainconfigs[i].cert_file)
        /\ is_cert_valid(files[domainconfigs[i].cert_file].content,
                         domainconfigs[i].ttl_days)

\* this run follows a run that completed, and no certificate has changed
\* since: all are Current and this run has issued none
SecondRunNothingToDo ==
    /\ run > 1
    /\ log.previous = "done"
    /\ log.issued = {}
    /\ AllCurrent

DistinctCertFiles ==
    \A i, j \in 1..Len(domainconfigs) :
        i # j => domainconfigs[i].cert_file # domainconfigs[j].cert_file

MissingCARaised ==
    \E x \in log.putRaised :
        LET cfg == configs[x[1]].actions[x[2]]
        IN  s_ca \in FormatsOf(cfg) /\ ~IsFile(files, cfg.ca_file)

C10_EveryGroupProcessed ==
    pc \in {"actions", "done", "raised"} =>
        \A i \in 1..Len(domainconfigs) :
            \E j \in log.checked :
                /\ configs[j] = domainconfigs[i]
                /\ \A t \in 1..Len(domainconfigs[i].actions) : <<j, t>> \in log.staleChecked

\* Under Spec the first loop never gets past the first element of configs
FirstElementRaises == pc \in {"load", "main", "cert", "raised"} /\ log.checked = {}

----------------------------------------------------------------------------
(* Properties of the resolution of the configuration *)

\* the entries resolved so far, by index
Resolved == 1..Len(domainconfigs)

\* the scalar fields update_config_value resolves, and the default
\* parse_config_entry hands it for each, given the resolved config c
ScalarFields ==
    {"api", "authority", "authority_tos_agreement", "authority_contact_email",
     "account_key", "cert_dir", "ttl_days", "cert_revoke_superseded", "csr_static",
     "csr_file", "cert_file", "key_file", "key_length"}

HardDefault(f, c) ==
    CASE f = "api" -> DEFAULT_API
      [] f = "authority" -> DEFAULT_AUTHORITY
      [] f = "authority_tos_agreement" -> runtimeconfig.authority_tos_agreement
      [] f = "authority_contact_email" -> None
      [] f = "account_key" -> PathJoin(runtimeconfig.work_dir, <<"account.key">>)
      [] f = "cert_dir" -> runtimeconfig.work_dir
      [] f = "ttl_days" -> DEFAULT_TTL
      [] f = "cert_revoke_superseded" -> <<"false">>
      [] f = "csr_static" -> <<"false">>
      [] f = "csr_file" -> PathJoin(c.cert_dir, c.id \o <<".csr">>)
      [] f = "cert_file" ->
            Get(globalconfig, "server_cert", PathJoin(c.cert_dir, c.id \o <<".crt">>))
      [] f = "key_file" ->
            Get(globalconfig, "server_key", PathJoin(c.cert_dir, c.id \o <<".key">>))
      [] f = "key_length" -> DEFAULT_KEY_LENGTH

\* the positions of the override documents that define field f
DefinedAt(localconfig, f) == {n \in 1..Len(localconfig) : f \in DOMAIN localconfig[n]}

Least(S) == CHOOSE n \in S : \A m \in S : n <= m

\* C6: every scalar field is resolved to the value of the first override
\* document, in list order, that defines it; if none does, to the global
\* document's value; and only if that does not define it either, to the default.
C6_FirstDefiningDocumentWins ==
    \A i \in Resolved : \A f \in ScalarFields :
        LET localconfig == entries[i][2]
            at == DefinedAt(localconfig, f)
            c == domainconfigs[i]
        IN  c[f] = IF at # {} THEN localconfig[Least(at)][f]
                   ELSE IF f \in DOMAIN globalconfig THEN globalconfig[f]
                   ELSE HardDefault(f, c)

\* two override documents and the global document define ttl_days, the two
\* documents differently, and the entry is resolved
C6_Witness ==
    \E i \in Resolved :
        LET at == DefinedAt(entries[i][2], "ttl_days")
        IN  /\ Cardinality(at) >= 2
            /\ \E n, m \in at : entries[i][2][n].ttl_days # entries[i][2][m].ttl_days
            /\ "ttl_days" \in DOMAIN globalconfig

\* C7: the CA file of a group is that of the first override document
\* defining ca_file (static), else the global server_ca (static), else
\* {cert_dir}/{id}.ca (not static).
C7_CAPrecedence ==
    \A i \in Resolved :
        LET localconfig == entries[i][2]
            at == DefinedAt(localconfig, "ca_file")
            c == domainconfigs[i]
        IN  IF at # {}
            THEN c.static_ca /\ c.ca_file = localconfig[Least(at)].ca_file
            ELSE IF "server_ca" \in DOMAIN globalconfig
            THEN c.static_ca /\ c.ca_file = globalconfig.server_ca
            ELSE ~c.static_ca /\ c.ca_file = PathJoin(c.cert_dir, c.id \o <<".ca">>)

\* the ASCII-compatible form of a domain: a pure-ASCII domain unchanged
AsciiForm(domain) == IF NonAscii(domain) THEN idna_domain(domain) ELSE domain

\* C8: when a domain of the group is non-ASCII, the working domain list
\* holds the ASCII-compatible form of every domain of the group, in order,
\* these are the keys of handlers, and domaintranslation maps the ASCII form
\* of each translated domain back to its original.
C8_WorkingListIsAscii ==
    \A i \in Resolved :
        LET given == Split(entries[i][1], " ")
            ascii == [n \in 1..Len(given) |-> AsciiForm(given[n])]
            c == domainconfigs[i]
        IN  NonAscii(entries[i][1]) =>
               /\ c.domainlist = ascii
               /\ DOMAIN c.handlers = Range(ascii)
               /\ \A n \in 1..Len(given) :
                     NonAscii(given[n]) =>
                         DictGet(c.domaintranslation, ascii[n], <<>>) = given[n]

\* the lists that hold the elements of list in some order
Reorderings(list) ==
    {[n \in 1..Len(list) |-> list[p[n]]] :
        p \in {q \in [1..Len(list) -> 1..Len(list)] :
                  \A n, m \in 1..Len(list) : q[n] = q[m] => n = m}}

\* the configuration resolved for entry i had its key been written as key
ResolvedAs(i, key) == parse_config_entry(<<key, entries[i][2]>>, globalconfig, runtimeconfig)

\* the default paths of the files of a group
DefaultPaths(c) ==
    [ext \in {<<".csr">>, <<".crt">>, <<".key">>, <<".ca">>} |->
        PathJoin(c.cert_dir, c.id \o ext)]

\* C9 as stated: keys naming the same domains in different orders resolve to
\* the same id, hence to the same default paths.
C9_IdIgnoresOrder ==
    \A i \in Resolved :
        \A l \in Reorderings(Split(entries[i][1], " ")) :
            LET other == ResolvedAs(i, Join(l, <<" ">>))
            IN  /\ other.id = domainconfigs[i].id
                /\ DefaultPaths(other) = DefaultPaths(domainconfigs[i])

\* C9 amended: the id is taken from the key as written, without sorting: the
\* default csr path is {cert_dir}/{id}.csr, and a key naming the same domains
\* in another order resolves to another id and other default paths.
C9_IdFollowsKeyAsWritten ==
    \A i \in Resolved :
        LET c == domainconfigs[i]
        IN  /\ DefinedAt(entries[i][2], "csr_file") = {} /\ "csr_file" \notin DOMAIN globalconfig
               => c.csr_file = DefaultPaths(c)[<<".csr">>]
            /\ \A l \in Reorderings(Split(entries[i][1], " ")) :
                  LET key == Join(l, <<" ">>)
                      other == ResolvedAs(i, key)
                  IN  key # entries[i][1] =>
                         /\ other.id # c.id
                         /\ \A ext \in DOMAIN DefaultPaths(c) :
                               DefaultPaths(other)[ext] # DefaultPaths(c)[ext]

\* a resolved entry whose key names two different domains
C9_Witness ==
    \E i \in Resolved :
        LET given == Split(entries[i][1], " ")
        IN  Len(given) >= 2 /\ given[1] # given[2]


----------------------------------------------------------------------------
(* Deployment targets that a run skips as up to date *)

\* the format list of a target, in order, as cert_put reads it
FormatListOf(cfg) ==
    LET parts == Split(cfg.format, ",")
    IN  [i \in 1..Len(parts) |-> Strip(parts[i])]

\* the file a component of a format list is read from
ComponentFile(cfg, fmt) ==
    CASE fmt = s_crt -> cfg.cert_file
      [] fmt = s_key -> cfg.key_file
      [] OTHER -> cfg.ca_file

\* the contents of the component files of a format list, one after the other
RECURSIVE Concatenation(_, _)
Concatenation(cfg, fmts) ==
    IF fmts = <<>> THEN <<>>
    ELSE files[ComponentFile(cfg, Head(fmts))].content
             \o Concatenation(cfg, Tail(fmts))

\* the target holds every configured component, in format order
TargetComplete(cfg) ==
    LET fmts == SelectSeq(FormatListOf(cfg), LAMBDA f : f \in {s_crt, s_key, s_ca})
    IN  /\ \A k \in 1..Len(fmts) : IsFile(files, ComponentFile(cfg, fmts[k]))
        /\ files[cfg.path].content = Concatenation(cfg, fmts)

\* the targets this run found current and left alone, and that no other
\* target of the run has rewritten since
TreatedAsCurrent ==
    {x \in log.staleChecked \ log.rebuilt :
        LET config == configs[x[1]]
            cfg == config.actions[x[2]]
        IN  /\ IsFile(files, config.cert_file)
            /\ target_is_current(files, cfg.path, config.cert_file)
            /\ \A y \in log.rebuilt :
                  configs[y[1]].actions[y[2]].path # cfg.path}

====
